---- MODULE Spec2Model ----
(***************************************************************************)
(* Model of src/server.py: the WhatsApp webhook, its per-conversation      *)
(* message buffer and debounce loop (buffer_loop), the delivery sequence   *)
(* (process_async), the reply chunker inside send_whatsapp_message and the *)
(* phone-number normalizer (_clean_number / _extract_incoming).            *)
(*                                                                         *)
(* Strings are modelled structurally:                                      *)
(*   - a raw identifier (JID) is a sequence of tokens, each token a fixed  *)
(*     piece of text: a run of digits, "@", "lid", "g.us", ...             *)
(*   - a reply text is a sequence of characters.                           *)
(***************************************************************************)
EXTENDS Integers, Sequences, FiniteSets, TLC

VARIABLES
    \* ---- shared stores (tools.redis_tools, module-level dicts) ----
    buffer,            \* Buffer Store: key -> sequence of fragments
    cooldown,          \* Cooldown Store: set of keys whose expiry is in the future
    buffer_sessions,   \* server.py:545  keys with a debounce loop registered
    presence_sessions, \* server.py:544
    threads,           \* running buffer_loop threads and background process_async tasks
    status,            \* status returned by the last webhook call
    \* ---- history (observation only, recorded while observe is TRUE) ----
    observe,
    pushed,            \* key -> fragments appended to the buffer, in order
    dispatched,        \* key -> fragment lists handed to process_async, in order
    generated,         \* key -> number of run_agent calls
    sent,              \* keys to which send_whatsapp_message was called
    pollsSincePush,    \* key -> polls of the key's loop since the last push
    burstBroken,       \* key -> a push arrived two or more polls after the previous one
    drained,           \* key -> fragment lists popped by the key's loop, in order
    arrivedWaiting,    \* key -> the last push arrived while the key's loop was polling
    coolCalls,         \* keys for which process_async or run_agent ran during a cooldown
    lastExit,          \* how the last buffer_loop thread ended
    nPush,             \* number of webhook calls so far (bounded)
    \* ---- pure-function harnesses ----
    jid, cleaned,      \* _clean_number input / output
    pl, data,          \* _extract_incoming input / output
    mensagem, max_len, msgs,  \* chunker inputs / output
    pa_pc, calls, sendIdx     \* process_async taken alone: position, calls made, chunk index

vars == << observe, buffer, cooldown, buffer_sessions, presence_sessions, threads, status,
           pushed, dispatched, generated, sent, pollsSincePush, burstBroken,
           coolCalls, lastExit, nPush,
           jid, cleaned, pl, data, mensagem, max_len, msgs,
           drained, arrivedWaiting, pa_pc, calls, sendIdx >>

\* Python None where an identifier (a token sequence) is expected
None == << "None" >>

-----------------------------------------------------------------------------
(* Bounds of the model *)

MaxJidLen == 3       \* tokens in an enumerated raw identifier
MaxTextLen == 7      \* characters in an enumerated reply text
MaxWebhooks == 3     \* webhook calls in one behaviour
MaxRawWebhooks == 2  \* webhook calls in one behaviour over raw payloads
MaxThreads == 2      \* threads alive at once

-----------------------------------------------------------------------------
(* Generic helpers *)

RECURSIVE Flatten(_)
Flatten(ss) == IF ss = << >> THEN << >> ELSE Head(ss) \o Flatten(Tail(ss))

RECURSIVE SumSeq(_)
SumSeq(s) == IF s = << >> THEN 0 ELSE Head(s) + SumSeq(Tail(s))

SeqsUpTo(S, n) == UNION { [1..m -> S] : m \in 0..n }

\* dict.get(k, default) on a function with a dynamic domain
Get(f, k, d) == IF k \in DOMAIN f THEN f[k] ELSE d

\* f with f[k] = v, extending the domain when needed
Put(f, k, v) == [x \in (DOMAIN f) \cup {k} |-> IF x = k THEN v ELSE f[x]]

-----------------------------------------------------------------------------
(* Raw identifiers: token sequences *)

DigitToks == {"1", "5585999", "558599999", "5585999999", "5585999999999",
              "558599999999999"}
OtherToks == {"@", "lid", "g.us", "s.whatsapp.net", "-"}
JidToks == DigitToks \cup OtherToks

\* number of characters of a digit token
DigitLen(t) ==
    CASE t = "1" -> 1
      [] t = "5585999" -> 7
      [] t = "558599999" -> 9
      [] t = "5585999999999" -> 13
      [] t = "5585999999" -> 10
      [] t = "558599999999999" -> 15
      [] OTHER -> 0

MinDigits == 10
MaxDigits == 15

\* "@lid" in jid  /  "@g.us" in jid : the substring starts at an "@" token
ContainsMarker(raw, marker) ==
    \E i \in 1..(Len(raw) - 1) : raw[i] = "@" /\ raw[i + 1] = marker

\* jid.split("@")[0]
BeforeAt(raw) ==
    IF \E i \in 1..Len(raw) : raw[i] = "@"
    THEN LET first == CHOOSE i \in 1..Len(raw) :
                          /\ raw[i] = "@"
                          /\ \A j \in 1..(i - 1) : raw[j] # "@"
         IN SubSeq(raw, 1, first - 1)
    ELSE raw

\* re.sub(r"\D", "", s)
StripNonDigits(raw) == SelectSeq(raw, LAMBDA t : t \in DigitToks)

\* len() of a digits-only string
NumLen(num) == SumSeq([i \in 1..Len(num) |-> DigitLen(num[i])])

\* the length validation of _clean_number, line 337
CleanLengthReject(num) == NumLen(num) > MaxDigits \/ NumLen(num) < MinDigits

\* _clean_number(jid): None for a falsy or non-string jid
CleanNumber_nolid(raw) ==
    IF raw = None \/ raw = << >> THEN None
    ELSE IF ContainsMarker(raw, "g.us") THEN None
    ELSE LET num == StripNonDigits(BeforeAt(raw))
         IN IF CleanLengthReject(num) THEN None ELSE num
CleanNumber(raw) ==
    IF raw = None \/ raw = << >> THEN None
    ELSE IF ContainsMarker(raw, "lid") THEN None
    ELSE IF ContainsMarker(raw, "g.us") THEN None
    ELSE LET num == StripNonDigits(BeforeAt(raw))
         IN IF CleanLengthReject(num) THEN None ELSE num

-----------------------------------------------------------------------------
(* _extract_incoming: the payload after unwrapping, lines 342-448.         *)
(* Absent fields are None.                                                 *)

Texts == {"leite", " ", ""}

\* Python truthiness of an identifier (None and "" are falsy)
Truthy(x) == x # None /\ x # << >>

\* Python truthiness of a text; a missing text is ""
TruthyTxt_always(x) == TRUE
TruthyTxt(x) == x # ""

\* bool(m.strip()) for a fragment
NonBlank(m) == m \notin {"", " "}

\* candidates, lines 356-376, in priority order
Candidates(p) ==
    << p.msg_sender, p.msg_chatid, p.chat_id, p.chat_wa_id, p.chat_phone,
       p.from, p.sender, p.key_remoteJid, p.key_participant >>

\* lines 379-383: the first candidate _clean_number accepts, else None
FirstValid(cands) ==
    LET ok == { i \in 1..Len(cands) : CleanNumber(cands[i]) # None }
    IN IF ok = {} THEN None
       ELSE CleanNumber(cands[CHOOSE i \in ok : \A j \in ok : i <= j])

\* lines 386-390: emergency fallback on payload["from"]
Fallback(p, telefone) ==
    IF ~Truthy(telefone) /\ Truthy(p.from) /\ ~ContainsMarker(p.from, "lid")
    THEN StripNonDigits(p.from)
    ELSE telefone

\* lines 445-448: for a message sent by the own number, the recipient
FromMeTelefone(p, telefone) ==
    LET cm == << p.chat_wa_id, p.chat_phone, p.sender, p.to >>
        ok == { i \in 1..Len(cm) : Truthy(cm[i]) /\ ~ContainsMarker(cm[i], "lid") }
    IN IF ok = {} THEN telefone
       ELSE StripNonDigits(cm[CHOOSE i \in ok : \A j \in ok : i <= j])

\* lines 394-457: text and kind; audio without text gets a placeholder
ExtractText(p) ==
    IF p.type = "audio" /\ ~TruthyTxt(p.body) THEN "[Audio]" ELSE p.body

ExtractIncoming(p) ==
    LET t1 == Fallback(p, FirstValid(Candidates(p)))
        telefone == IF p.fromMe THEN FromMeTelefone(p, t1) ELSE t1
    IN [ telefone |-> telefone,
         mensagem_texto |-> ExtractText(p),
         message_type |-> p.type,
         from_me |-> p.fromMe ]

\* no extraction result yet
NoData ==
    [ telefone |-> << "pending" >>, mensagem_texto |-> "", message_type |-> "text",
      from_me |-> FALSE ]

EmptyPayload ==
    [ msg_sender |-> None, msg_chatid |-> None, chat_id |-> None,
      chat_wa_id |-> None, chat_phone |-> None, from |-> None, sender |-> None,
      key_remoteJid |-> None, key_participant |-> None, to |-> None,
      fromMe |-> FALSE, body |-> "leite", type |-> "text" ]

-----------------------------------------------------------------------------
(* The reply chunker, send_whatsapp_message lines 497-527.                  *)
(* A text is a sequence of characters; "\n" is the newline.                 *)

Chars == {"a", "b", " ", "\n"}
Whitespace == {" ", "\n"}

\* max_len of line 497
MaxLen == 500

\* the model checks the algorithm for every max_len in MinChunkLen..MaxChunkLen
MinChunkLen == 3
MaxChunkLen == 6

\* str.strip()
RECURSIVE LStrip(_)
LStrip(s) == IF s # << >> /\ Head(s) \in Whitespace THEN LStrip(Tail(s)) ELSE s

RECURSIVE RStrip(_)
RStrip(s) ==
    IF s # << >> /\ s[Len(s)] \in Whitespace THEN RStrip(SubSeq(s, 1, Len(s) - 1)) ELSE s

Strip(s) == RStrip(LStrip(s))

\* str.split("\n")
RECURSIVE SplitLines(_)
SplitLines(s) ==
    IF \E i \in 1..Len(s) : s[i] = "\n"
    THEN LET i == CHOOSE i \in 1..Len(s) :
                      s[i] = "\n" /\ \A j \in 1..(i - 1) : s[j] # "\n"
         IN << SubSeq(s, 1, i - 1) >> \o SplitLines(SubSeq(s, i + 1, Len(s)))
    ELSE << s >>

\* str.split("\n\n"): leftmost, non-overlapping separators
RECURSIVE SplitParagraphs(_)
SplitParagraphs(s) ==
    IF \E i \in 1..(Len(s) - 1) : s[i] = "\n" /\ s[i + 1] = "\n"
    THEN LET i == CHOOSE i \in 1..(Len(s) - 1) :
                      /\ s[i] = "\n" /\ s[i + 1] = "\n"
                      /\ \A j \in 1..(i - 1) : ~(s[j] = "\n" /\ s[j + 1] = "\n")
         IN << SubSeq(s, 1, i - 1) >> \o SplitParagraphs(SubSeq(s, i + 2, Len(s)))
    ELSE << s >>

\* "if curr: msgs.append(curr.strip())" followed by a new curr
FlushThen_drop(st, curr) == [msgs |-> st.msgs, curr |-> curr]
FlushThen(st, curr) ==
    [ msgs |-> IF st.curr # << >> THEN Append(st.msgs, Strip(st.curr)) ELSE st.msgs,
      curr |-> curr ]

\* lines 513-518: one line of a long paragraph
LineStep(st, linha, lim) ==
    IF Len(st.curr) + Len(linha) + 1 <= lim
    THEN [st EXCEPT !.curr = st.curr \o linha \o << "\n" >>]
    ELSE FlushThen(st, linha \o << "\n" >>)

RECURSIVE FoldLines(_, _, _)
FoldLines(st, linhas, lim) ==
    IF linhas = << >> THEN st
    ELSE FoldLines(LineStep(st, Head(linhas), lim), Tail(linhas), lim)

\* lines 505-523: one paragraph
ParagraphStep(st, p, lim) ==
    IF Len(p) > lim
    THEN FoldLines(FlushThen(st, << >>), SplitLines(p), lim)
    ELSE IF Len(st.curr) + Len(p) + 2 <= lim
    THEN [st EXCEPT !.curr = st.curr \o p \o << "\n", "\n" >>]
    ELSE FlushThen(st, p \o << "\n", "\n" >>)

RECURSIVE FoldParagraphs(_, _, _)
FoldParagraphs(st, ps, lim) ==
    IF ps = << >> THEN st
    ELSE FoldParagraphs(ParagraphStep(st, Head(ps), lim), Tail(ps), lim)

\* lines 498-527: the list msgs
Chunk(text, lim) ==
    IF Len(text) > lim
    THEN FlushThen(FoldParagraphs([msgs |-> << >>, curr |-> << >>],
                                  SplitParagraphs(text), lim), << >>).msgs
    ELSE << text >>

-----------------------------------------------------------------------------
(* Stores of tools.redis_tools, as the specification describes them        *)

EmptyMap == [x \in {} |-> << >>]

\* get_buffer_length(key)
GetBufferLength(buf, k) == Len(Get(buf, k, << >>))

\* push_message_to_buffer(key, txt): the buffer after the append
PushMessageToBuffer(buf, k, txt) == Put(buf, k, Append(Get(buf, k, << >>), txt))

\* its result: whether this was the first fragment of an empty buffer
PushReturn(buf, k) == GetBufferLength(buf, k) = 0

\* pop_all_messages(key): the drained fragments; the buffer is left empty
PopAllMessages(buf, k) == Get(buf, k, << >>)
BufferAfterPop(buf, k) == Put(buf, k, << >>)

\* is_agent_in_cooldown(key) / set_agent_cooldown(key, ttl)
IsAgentInCooldown(cd, k) == k \in cd
SetAgentCooldown(cd, k) == cd \cup {k}

-----------------------------------------------------------------------------
(* Configuration and inputs of the webhook *)

\* settings.whatsapp_agent_number, cleaned as in line 693
AgentNumber == << "+", "558599999999999" >>
AgentClean == StripNonDigits(AgentNumber)

Client == << "5585999999999", "@", "s.whatsapp.net" >>
ClientKey == << "5585999999999" >>

\* events of one conversation: inbound texts, the operator's
\* outbound message to the client, the agent number's own conversation
MainPayloads ==
    { [EmptyPayload EXCEPT !.msg_sender = Client, !.body = b] : b \in Texts }
    \cup { [EmptyPayload EXCEPT !.fromMe = TRUE, !.chat_wa_id = Client, !.body = "ok"] }
    \cup { [EmptyPayload EXCEPT !.fromMe = TRUE, !.to = AgentNumber, !.body = "ok"] }

\* identifiers seen in payloads
GroupLong == << "558599999999999", "-", "1", "@", "g.us" >>
GroupShort == << "5585999999999", "@", "g.us" >>
DeviceLink == << "5585999", "@", "lid" >>
ShortNumber == << "5585999" >>
OtherClient == << "5585999999", "@", "s.whatsapp.net" >>

\* inbound events whose sender is absent, a device link or the client and
\* whose "from" may be a group or a short number; outbound echoes to the
\* client, to the agent's own number or to a group
RawPayloads ==
    { [EmptyPayload EXCEPT !.msg_sender = ms, !.from = fr,
                           !.body = bt[1], !.type = bt[2]] :
        ms \in {None, DeviceLink},
        fr \in {None, Client, GroupLong, GroupShort, ShortNumber},
        bt \in { << "leite", "text" >>, << "", "text" >>, << "", "audio" >> } }
    \cup
    { [EmptyPayload EXCEPT !.msg_sender = Client, !.body = bt[1], !.type = bt[2]] :
        bt \in { << "leite", "text" >>, << "", "text" >>, << "", "audio" >> } }
    \cup
    { [EmptyPayload EXCEPT !.fromMe = TRUE, !.chat_wa_id = wa, !.from = fr,
                           !.body = "ok"] :
        wa \in {None, Client, AgentNumber}, fr \in {None, GroupShort} }

-----------------------------------------------------------------------------
(* Threads: buffer_loop threads (kind "loop") and background tasks running  *)
(* process_async (kind "task").                                             *)

StallThreshold == 3

NoMsg == [ctx |-> FALSE, frags |-> << >>]

FreeId == CHOOSE i \in 1..(Cardinality(threads) + 1) : \A t \in threads : t.id # i

NewLoop(num) ==
    [ id |-> FreeId, kind |-> "loop", tel |-> num, pc |-> "len",
      prev |-> 0, stall |-> 0, msg |-> NoMsg, exc |-> FALSE ]

NewTask(tel, txt) ==
    [ id |-> FreeId, kind |-> "task", tel |-> tel, pc |-> "pa_call",
      prev |-> 0, stall |-> 0, msg |-> [ctx |-> FALSE, frags |-> << txt >>],
      exc |-> FALSE ]

Replace(t, u) == (threads \ {t}) \cup {u}

LoopsOf(k) == { t \in threads : t.kind = "loop" /\ t.tel = k }

\* lines 720-721: a loop is started for the first fragment of a key that
\* has no registered loop
StartsLoop_nocheck(first, sessions, num) == first
StartsLoop(first, sessions, num) == first /\ num \notin sessions

\* lines 724-725: a push that returns False hands the text to process_async
StartsTask(first) == ~first

\* lines 654-655: the finally clause of buffer_loop
SessionsAfterLoopEnd_normalonly(sessions, tel, exc) ==
    IF exc THEN sessions ELSE sessions \ {StripNonDigits(tel)}
SessionsAfterLoopEnd(sessions, tel, exc) == sessions \ {StripNonDigits(tel)}

\* line 627-628: one sample of the waiting loop
StallAfterPoll_keep(curr, prev, stall) == IF curr > prev THEN stall ELSE stall + 1
StallAfterPoll(curr, prev, stall) == IF curr > prev THEN 0 ELSE stall + 1
PrevAfterPoll(curr, prev) == IF curr > prev THEN curr ELSE prev

\* line 624: the waiting loop goes on while stall < 3
KeepsWaiting_more(stall) == stall < StallThreshold + 1
KeepsWaiting_never(stall) == FALSE
KeepsWaiting(stall) == stall < StallThreshold

\* line 635: final = " | ".join([m for m in msgs if m.strip()])
JoinFragments(ms) == SelectSeq(ms, NonBlank)

\* the text of the join: the fragments with " | " between them
RECURSIVE JoinSep(_)
JoinSep(frs) ==
    IF Len(frs) <= 1 THEN frs
    ELSE << Head(frs), " | " >> \o JoinSep(Tail(frs))

\* lines 635-643: the text handed to process_async and on to run_agent:
\* the join, after the order context and a blank line when there is one
FinalText(msg) ==
    (IF msg.ctx THEN << "order_ctx", "\n\n" >> ELSE << >>) \o JoinSep(msg.frags)

Cap(n) == IF n > StallThreshold + 2 THEN StallThreshold + 2 ELSE n

-----------------------------------------------------------------------------
(* The webhook, lines 666-730 *)

\* process_async taken alone (the dispatch harness below) is not running
DispatchIdle == pa_pc = "idle" /\ calls = << >> /\ sendIdx = 0

DispatchUnchanged == UNCHANGED << pa_pc, calls, sendIdx >>

HarnessUnchanged ==
    /\ UNCHANGED << observe, jid, cleaned, pl, data, mensagem, max_len, msgs >>
    /\ DispatchUnchanged

RecordPush(num, txt) ==
    IF observe
    THEN /\ pushed' = Put(pushed, num, Append(Get(pushed, num, << >>), txt))
         /\ burstBroken' = Put(burstBroken, num,
                               \/ Get(burstBroken, num, FALSE)
                               \/ /\ Get(pushed, num, << >>) # << >>
                                  /\ Get(pollsSincePush, num, 0) >= 2)
         /\ pollsSincePush' = Put(pollsSincePush, num, 0)
         /\ arrivedWaiting' = Put(arrivedWaiting, num,
                                  \E t \in LoopsOf(num) : t.pc = "poll")
    ELSE UNCHANGED << pushed, burstBroken, arrivedWaiting, pollsSincePush >>

\* lines 690-696: the agent number is configured and the outbound message
\* is addressed to another number
TakeoverApplies_always(tel) == TRUE
TakeoverApplies(tel) == AgentClean # << >> /\ tel # AgentClean

Webhook(p, limit) ==
    /\ nPush < limit
    /\ nPush' = nPush + 1
    /\ UNCHANGED << observe, jid, cleaned, data, mensagem, max_len, msgs >>
    /\ DispatchUnchanged
    /\ UNCHANGED << dispatched, drained, generated, sent, coolCalls, lastExit >>
    /\ LET d == ExtractIncoming(p)
           tel == d.telefone
           txt == d.mensagem_texto
       IN IF ~Truthy(tel) \/ (~TruthyTxt(txt) /\ d.message_type = "text")
          THEN \* lines 675-683
               /\ status' = "ignored"
               /\ UNCHANGED << buffer, cooldown, buffer_sessions, presence_sessions,
                               threads, pushed, burstBroken, arrivedWaiting, pollsSincePush >>
          ELSE IF d.from_me
          THEN \* lines 687-703
               /\ cooldown' = IF TakeoverApplies(tel)
                              THEN SetAgentCooldown(cooldown, tel)
                              ELSE cooldown
               /\ status' = "ignored_self"
               /\ UNCHANGED << buffer, buffer_sessions, presence_sessions,
                               threads, pushed, burstBroken, arrivedWaiting, pollsSincePush >>
          ELSE LET num == StripNonDigits(tel)
                   first == PushReturn(buffer, num)
               IN IF IsAgentInCooldown(cooldown, num)
                  THEN \* lines 710-713
                       /\ buffer' = PushMessageToBuffer(buffer, num, txt)
                       /\ RecordPush(num, txt)
                       /\ status' = "cooldown"
                       /\ UNCHANGED << cooldown, buffer_sessions,
                                       presence_sessions, threads >>
                  ELSE \* lines 715-727
                       /\ presence_sessions' = presence_sessions \cup {num}
                       /\ buffer' = PushMessageToBuffer(buffer, num, txt)
                       /\ RecordPush(num, txt)
                       /\ IF StartsLoop(first, buffer_sessions, num)
                          THEN /\ Cardinality(threads) < MaxThreads
                               /\ buffer_sessions' = buffer_sessions \cup {num}
                               /\ threads' = threads \cup {NewLoop(num)}
                          ELSE IF StartsTask(first)
                          THEN /\ Cardinality(threads) < MaxThreads
                               /\ threads' = threads \cup {NewTask(tel, txt)}
                               /\ UNCHANGED buffer_sessions
                          ELSE UNCHANGED << buffer_sessions, threads >>
                       /\ status' = "buffering"
                       /\ UNCHANGED cooldown

WebhookMain == \E p \in MainPayloads : Webhook(p, MaxWebhooks) /\ UNCHANGED pl

\* the webhook over payloads with unusual identifiers; pl keeps the payload
WebhookRaw == \E p \in RawPayloads : Webhook(p, MaxRawWebhooks) /\ pl' = p

\* the expiry of a cooldown record passes
CooldownExpires ==
    /\ \E k \in cooldown : cooldown' = cooldown \ {k}
    /\ HarnessUnchanged
    /\ UNCHANGED << buffer, buffer_sessions, presence_sessions, threads, status,
                    pushed, dispatched, drained, generated, sent, pollsSincePush, burstBroken, arrivedWaiting,
                    coolCalls, lastExit, nPush >>

-----------------------------------------------------------------------------
(* buffer_loop, lines 603-655 *)

StoresUnchanged == UNCHANGED << cooldown, status, nPush, pushed, burstBroken, arrivedWaiting >>

\* history: a call made for key k while k is in cooldown
NoteCall(k) ==
    coolCalls' = IF observe /\ IsAgentInCooldown(cooldown, k)
                 THEN coolCalls \cup {k}
                 ELSE coolCalls

\* line 615-621: prev = get_buffer_length(n); leave when it is 0
LoopLen ==
    \E t \in threads :
        /\ t.kind = "loop" /\ t.pc = "len"
        /\ LET n == StripNonDigits(t.tel)
               prev == GetBufferLength(buffer, n)
           IN threads' = Replace(t, IF prev = 0
                                    THEN [t EXCEPT !.pc = "exit", !.prev = 0, !.stall = 0]
                                    ELSE [t EXCEPT !.pc = "poll", !.prev = prev, !.stall = 0])
        /\ HarnessUnchanged /\ StoresUnchanged
        /\ UNCHANGED << buffer, buffer_sessions, presence_sessions, dispatched, drained,
                        generated, sent, pollsSincePush, coolCalls, lastExit >>

\* lines 624-628: one iteration of the waiting loop (sleep, sample, count)
LoopPoll ==
    \E t \in threads :
        /\ t.kind = "loop" /\ t.pc = "poll"
        /\ LET n == StripNonDigits(t.tel)
               curr == GetBufferLength(buffer, n)
               stall == StallAfterPoll(curr, t.prev, t.stall)
           IN /\ threads' = Replace(t, [t EXCEPT
                                   !.prev = PrevAfterPoll(curr, t.prev),
                                   !.stall = stall,
                                   !.pc = IF KeepsWaiting(stall) THEN "poll" ELSE "drain"])
              /\ pollsSincePush' = IF observe
                                   THEN Put(pollsSincePush, n,
                                            Cap(Get(pollsSincePush, n, 0) + 1))
                                   ELSE pollsSincePush
        /\ HarnessUnchanged /\ StoresUnchanged
        /\ UNCHANGED << buffer, buffer_sessions, presence_sessions, dispatched, drained,
                        generated, sent, coolCalls, lastExit >>

\* lines 632-638: drain, join the non-blank fragments, leave when nothing is left
LoopDrain ==
    \E t \in threads :
        /\ t.kind = "loop" /\ t.pc = "drain"
        /\ LET n == StripNonDigits(t.tel)
               final == JoinFragments(PopAllMessages(buffer, n))
           IN /\ buffer' = BufferAfterPop(buffer, n)
              /\ threads' = Replace(t, IF final = << >>
                                       THEN [t EXCEPT !.pc = "exit", !.prev = 0, !.stall = 0]
                                       ELSE [t EXCEPT !.pc = "ctx", !.prev = 0, !.stall = 0,
                                                      !.msg = [ctx |-> FALSE, frags |-> final]])
              /\ drained' = IF observe
                             THEN Put(drained, n, Append(Get(drained, n, << >>),
                                                         PopAllMessages(buffer, n)))
                             ELSE drained
        /\ HarnessUnchanged /\ StoresUnchanged
        /\ UNCHANGED << buffer_sessions, presence_sessions, dispatched, generated, sent,
                        pollsSincePush, coolCalls, lastExit >>

\* lines 641-647: get_order_context, optional prefix, call process_async
LoopCtx ==
    \E t \in threads, hasCtx \in BOOLEAN :
        /\ t.kind = "loop" /\ t.pc = "ctx"
        /\ threads' = Replace(t, [t EXCEPT !.pc = "pa_call", !.msg.ctx = hasCtx])
        /\ HarnessUnchanged /\ StoresUnchanged
        /\ UNCHANGED << buffer, buffer_sessions, presence_sessions, dispatched, drained,
                        generated, sent, pollsSincePush, coolCalls, lastExit >>

\* an exception of a store call inside the try of buffer_loop (lines 615,
\* 626, 632, 641): control goes to the except and finally clauses
LoopRaise ==
    \E t \in threads :
        /\ t.kind = "loop" /\ t.pc \in {"len", "poll", "drain", "ctx"}
        /\ threads' = Replace(t, [t EXCEPT !.pc = "exit", !.exc = TRUE,
                                           !.prev = 0, !.stall = 0, !.msg = NoMsg])
        /\ HarnessUnchanged /\ StoresUnchanged
        /\ UNCHANGED << buffer, buffer_sessions, presence_sessions, dispatched, drained,
                        generated, sent, pollsSincePush, coolCalls, lastExit >>

\* lines 652-655: except / finally; the thread ends
LoopExit ==
    \E t \in threads :
        /\ t.kind = "loop" /\ t.pc = "exit"
        /\ buffer_sessions' = SessionsAfterLoopEnd(buffer_sessions, t.tel, t.exc)
        /\ threads' = threads \ {t}
        /\ lastExit' = IF t.exc THEN "exception" ELSE "normal"
        /\ HarnessUnchanged /\ StoresUnchanged
        /\ UNCHANGED << buffer, presence_sessions, dispatched, drained, generated, sent,
                        pollsSincePush, coolCalls >>

-----------------------------------------------------------------------------
(* process_async, lines 558-601, run by a loop or by a background task *)

InProcessAsync(t) ==
    t.pc \in {"pa_call", "pa_agent", "pa_send", "pa_finally"}

PaFrame ==
    /\ HarnessUnchanged /\ StoresUnchanged
    /\ UNCHANGED << buffer, buffer_sessions, lastExit, pollsSincePush >>

\* lines 569-583: entry of process_async, the read delay, mark_as_read and
\* send_presence(num, "composing"); either provider call may raise into line 596
PaCall ==
    \E t \in threads, ok \in BOOLEAN :
        /\ t.pc = "pa_call"
        /\ LET k == StripNonDigits(t.tel)
           IN dispatched' = IF observe
                            THEN Put(dispatched, k,
                                     Append(Get(dispatched, k, << >>), t.msg.frags))
                            ELSE dispatched
        /\ NoteCall(StripNonDigits(t.tel))
        /\ threads' = Replace(t, [t EXCEPT !.pc = IF ok THEN "pa_agent" ELSE "pa_finally"])
        /\ PaFrame /\ UNCHANGED << presence_sessions, generated, sent, drained >>

\* lines 586-587: run_agent(tel, msg); it returns or raises into line 596
PaAgent ==
    \E t \in threads, ok \in BOOLEAN :
        /\ t.pc = "pa_agent"
        /\ LET k == StripNonDigits(t.tel)
           IN generated' = IF observe
                           THEN Put(generated, k, Get(generated, k, 0) + 1)
                           ELSE generated
        /\ NoteCall(StripNonDigits(t.tel))
        /\ threads' = Replace(t, [t EXCEPT !.pc = IF ok THEN "pa_send" ELSE "pa_finally"])
        /\ PaFrame /\ UNCHANGED << presence_sessions, dispatched, drained, sent >>

\* lines 590-594: send_presence(num, "paused"), which may raise into line
\* 596, then send_whatsapp_message(tel, txt), which catches its own errors
PaSend ==
    \E t \in threads :
        /\ t.pc = "pa_send"
        /\ threads' = Replace(t, [t EXCEPT !.pc = "pa_finally"])
        /\ sent' = IF observe THEN sent \cup {StripNonDigits(t.tel)} ELSE sent
        /\ PaFrame /\ UNCHANGED << presence_sessions, dispatched, drained, generated, coolCalls >>

\* lines 598-601: finally: send_presence(tel, "paused"), presence_sessions.pop.
\* When the presence call raises, the exception leaves process_async.
PaFinally ==
    \E t \in threads, ok \in BOOLEAN :
        /\ t.pc = "pa_finally"
        /\ presence_sessions' = IF ok THEN presence_sessions \ {StripNonDigits(t.tel)}
                                ELSE presence_sessions
        /\ threads' = IF t.kind = "task"
                      THEN threads \ {t}
                      ELSE Replace(t, IF ok
                                      THEN [t EXCEPT !.pc = "len", !.msg = NoMsg]
                                      ELSE [t EXCEPT !.pc = "exit", !.exc = TRUE,
                                                     !.msg = NoMsg])
        /\ PaFrame /\ UNCHANGED << dispatched, drained, generated, sent, coolCalls >>

-----------------------------------------------------------------------------
(* The system *)

HarnessIdle ==
    /\ jid = None /\ cleaned = None
    /\ pl = EmptyPayload /\ data = NoData
    /\ mensagem = << >> /\ max_len = MaxLen /\ msgs = << >>
    /\ DispatchIdle

InitStores ==
    /\ buffer = EmptyMap
    /\ cooldown = {}
    /\ buffer_sessions = {}
    /\ presence_sessions = {}
    /\ threads = {}
    /\ status = "none"
    /\ pushed = EmptyMap
    /\ dispatched = EmptyMap
    /\ generated = EmptyMap
    /\ sent = {}
    /\ pollsSincePush = EmptyMap
    /\ burstBroken = EmptyMap
    /\ drained = EmptyMap
    /\ arrivedWaiting = EmptyMap
    /\ coolCalls = {}
    /\ lastExit = "none"
    /\ nPush = 0

Init == InitStores /\ HarnessIdle /\ observe = FALSE

\* the same system with the history variables recorded
InitObs == InitStores /\ HarnessIdle /\ observe = TRUE

ThreadStep ==
    \/ LoopLen \/ LoopPoll \/ LoopDrain \/ LoopCtx \/ LoopRaise \/ LoopExit
    \/ PaCall \/ PaAgent \/ PaSend \/ PaFinally

Next == WebhookMain \/ CooldownExpires \/ ThreadStep

Spec == Init /\ [][Next]_vars

\* every started thread keeps running: the sleeps of lines 574, 580, 591
\* and 625 return and each call of a thread returns or raises. An exception
\* (LoopRaise) and a further webhook call are never forced.
Fairness ==
    /\ WF_vars(LoopLen) /\ WF_vars(LoopPoll) /\ WF_vars(LoopDrain)
    /\ WF_vars(LoopCtx) /\ WF_vars(LoopExit)
    /\ WF_vars(PaCall) /\ WF_vars(PaAgent) /\ WF_vars(PaSend) /\ WF_vars(PaFinally)

SpecLive == Init /\ [][Next]_vars /\ Fairness

\* the same system fed with payloads carrying unusual identifiers
NextRaw == WebhookRaw \/ CooldownExpires \/ ThreadStep

SpecRaw == Init /\ [][NextRaw]_vars

SpecObs == InitObs /\ [][Next]_vars

\* events of every outcome of the webhook: those of one conversation, an
\* event with no identifier, one with a device link only, an audio message,
\* an outbound message without text
HookPayloads ==
    MainPayloads
    \cup { EmptyPayload,
           [EmptyPayload EXCEPT !.msg_sender = DeviceLink],
           [EmptyPayload EXCEPT !.msg_sender = Client, !.body = "", !.type = "audio"],
           [EmptyPayload EXCEPT !.fromMe = TRUE, !.chat_wa_id = Client, !.body = ""] }

\* the webhook, with pl keeping the payload of the last call
WebhookSeen == \E p \in HookPayloads : Webhook(p, MaxWebhooks) /\ pl' = p

NextHook == WebhookSeen \/ CooldownExpires \/ ThreadStep

SpecHook == Init /\ [][NextHook]_vars

\* the event the provider delivers for a reply the agent itself has sent to
\* the client (whatsapp.send_text, line 532): an outbound echo, fromMe set,
\* addressed to the client, carrying the reply
EchoBody == "resposta"
EchoPayload ==
    [EmptyPayload EXCEPT !.fromMe = TRUE, !.chat_wa_id = Client, !.body = EchoBody]

WebhookEcho ==
    /\ ClientKey \in sent
    /\ Webhook(EchoPayload, MaxWebhooks) /\ pl' = EchoPayload

NextEcho == WebhookSeen \/ WebhookEcho \/ CooldownExpires \/ ThreadStep

\* the system with the echoes of its own replies coming back to the webhook
SpecEcho == InitObs /\ [][NextEcho]_vars

\* a burst of texts of one client, each webhook call carrying the next one
Burst == << "leite", "pao", "2 unidades" >>

BurstPayload(n) ==
    [EmptyPayload EXCEPT !.msg_sender = Client, !.body = Burst[(n % Len(Burst)) + 1]]

WebhookBurst == Webhook(BurstPayload(nPush), MaxWebhooks) /\ UNCHANGED pl

NextBurst == WebhookBurst \/ ThreadStep

\* the system fed with the burst, the history variables recorded
SpecBurst == InitObs /\ [][NextBurst]_vars

-----------------------------------------------------------------------------
(* Properties of the debounce loop and the webhook *)

KeysSeen == (DOMAIN buffer) \cup buffer_sessions \cup cooldown
            \cup { StripNonDigits(t.tel) : t \in threads }

Count(seq, x) == Len(SelectSeq(seq, LAMBDA y : y = x))

\* no thread works for key k
Quiescent(k) == \A t \in threads : StripNonDigits(t.tel) # k

\* C1: for every key at most one buffer_loop thread is running, and every
\* running loop has its key registered in buffer_sessions, so a webhook call
\* that finds the key registered starts no second loop.
C1_AtMostOneLoop ==
    /\ \A t1, t2 \in threads :
          ( /\ t1.kind = "loop" /\ t2.kind = "loop"
            /\ StripNonDigits(t1.tel) = StripNonDigits(t2.tel) ) => t1 = t2
    /\ \A t \in threads : t.kind = "loop" => StripNonDigits(t.tel) \in buffer_sessions

\* a first fragment arrived on the empty buffer while the key's loop was
\* inside process_async
C1_Witness ==
    \E t \in threads :
        /\ t.kind = "loop" /\ InProcessAsync(t)
        /\ GetBufferLength(buffer, StripNonDigits(t.tel)) = 1

\* C2: the fragments handed to process_async are the fragments pushed: none
\* is dispatched more often than it was pushed, and once no thread works for
\* the key and no cooldown is active every pushed fragment has been dispatched.
C2_NoLossNoDup ==
    \A k \in DOMAIN pushed :
        LET out == Flatten(Get(dispatched, k, << >>))
        IN /\ \A x \in Texts : Count(out, x) <= Count(pushed[k], x)
           /\ (Quiescent(k) /\ ~IsAgentInCooldown(cooldown, k))
                 => \A x \in Texts : Count(out, x) = Count(pushed[k], x)

\* C3: while every push follows the previous one by less than a poll
\* interval (at most one poll between two pushes), there is at most one
\* dispatch, it holds all the pushed fragments, and neither it nor a
\* run_agent call happens before 3 consecutive polls without an arrival.
C3_OneDispatchPerBurst ==
    \A k \in DOMAIN pushed :
        ~Get(burstBroken, k, FALSE) =>
            /\ Len(Get(dispatched, k, << >>)) <= 1
            /\ Len(Get(dispatched, k, << >>)) = 1 =>
                  /\ Get(pollsSincePush, k, 0) >= StallThreshold
                  /\ dispatched[k][1] = pushed[k]
            /\ Get(generated, k, 0) >= 1 =>
                  Get(pollsSincePush, k, 0) >= StallThreshold

\* C4: an event handled during a cooldown is appended to the buffer, and no
\* process_async call and no run_agent call is made for a key while it is
\* in cooldown.
C4_NoDispatchInCooldown ==
    /\ coolCalls = {}
    /\ status = "cooldown" => \E k \in DOMAIN pushed : pushed[k] # << >>

\* C5: a key registered in buffer_sessions always has a running loop: the
\* loop removes its key when it ends, also after an exception.
C5_NoZombieSession ==
    \A k \in buffer_sessions :
        \E t \in threads : t.kind = "loop" /\ StripNonDigits(t.tel) = k

\* a loop ended by an exception and a later push started a new loop
C5_Witness ==
    /\ lastExit = "exception"
    /\ \E t \in threads : t.kind = "loop" /\ t.pc \in {"len", "poll"}

\* the status the claim expects for payload p when the keys in cd are in
\* cooldown, decided in the order ignored, ignored_self, cooldown, buffering
ExpectedStatus(p, cd) ==
    LET d == ExtractIncoming(p)
        noKey == d.telefone = None \/ d.telefone = << >>
        emptyText == d.mensagem_texto = "" /\ d.message_type = "text"
    IN IF noKey \/ emptyText THEN "ignored"
       ELSE IF p.fromMe THEN "ignored_self"
       ELSE IF StripNonDigits(d.telefone) \in cd THEN "cooldown"
       ELSE "buffering"

ExpectedText(frs, ctx) ==
    (IF ctx THEN << "order_ctx", "\n\n" >> ELSE << >>) \o JoinSep(frs)

\* C16: the text a loop hands to the agent is the fragments it drained in
\* that cycle, in order, joined by " | ", after the order context when there
\* is one; and for a burst of pushes there is at most one run_agent call
\* and its text is the join of all the fragments pushed.
C16_EngineTextIsDrainedJoin ==
    /\ \A t \in threads :
          (t.kind = "loop" /\ t.pc \in {"pa_call", "pa_agent"}) =>
              LET all == Get(drained, StripNonDigits(t.tel), << >>)
              IN /\ all # << >>
                 /\ FinalText(t.msg) = ExpectedText(all[Len(all)], t.msg.ctx)
    /\ \A k \in DOMAIN pushed :
          ~Get(burstBroken, k, FALSE) =>
              /\ Get(generated, k, 0) <= 1
              /\ \A t \in threads :
                    (StripNonDigits(t.tel) = k /\ t.pc = "pa_agent") =>
                        JoinSep(t.msg.frags) = JoinSep(pushed[k])

\* the cycle of key k that drained fragment f; a fragment not drained yet
\* belongs to a cycle after all those made so far
CycleOf(k, f) ==
    LET ds == Get(drained, k, << >>)
        hit == { c \in 1..Len(ds) : \E j \in 1..Len(ds[c]) : ds[c][j] = f }
    IN IF hit = {} THEN Len(ds) + 1
       ELSE CHOOSE c \in hit : \A d \in hit : c <= d

\* the dispatches of key k are in the order of the cycles of their fragments
DispatchedInCycleOrder(k) ==
    LET out == Get(dispatched, k, << >>)
    IN \A p, q \in 1..Len(out) :
          p < q => \A i \in 1..Len(out[p]), j \in 1..Len(out[q]) :
                      CycleOf(k, out[p][i]) <= CycleOf(k, out[q][j])

\* C17: a loop back at its emptiness check after a dispatch ends if the
\* buffer is empty and otherwise goes on waiting for the fragments that
\* arrived meanwhile; and no fragment of a later cycle of a key is handed to
\* process_async before a fragment of an earlier cycle.
C17_CyclesInOrder ==
    [][ /\ \A t \in threads :
              (t.kind = "loop" /\ t.pc = "len") =>
                  \A u \in threads' :
                      (u.id = t.id /\ u.pc \in {"poll", "exit"} /\ ~u.exc) =>
                          (u.pc = "exit" <=>
                               Get(buffer, StripNonDigits(t.tel), << >>) = << >>)
        /\ \A k \in DOMAIN dispatched' : DispatchedInCycleOrder(k)'
      ]_vars

\* C18: when a loop that ends without an exception removes its key from
\* buffer_sessions, the key's buffer is empty, so no fragment pushed while
\* the key was registered is left behind.
C18_EmptyAtRemoval ==
    [][ \A t \in threads :
            (t.kind = "loop" /\ t.pc = "exit" /\ ~t.exc /\ t \notin threads') =>
                Get(buffer, StripNonDigits(t.tel), << >>) = << >>
      ]_vars

\* C19: a sample of a waiting loop that is larger than the recorded length
\* sets the stall counter to 0 and records the sample, any other sample adds
\* 1 to the counter; the loop leaves the wait for the drain exactly when the
\* counter reaches 3: a waiting loop has a counter below 3 and a draining one
\* a counter of 3.
C19_StallCounter ==
    [][ /\ \A t \in threads : \A u \in threads' :
              (t.kind = "loop" /\ t.pc = "poll" /\ u.id = t.id /\ u # t /\ ~u.exc) =>
                  LET sample == Len(Get(buffer, StripNonDigits(t.tel), << >>))
                  IN IF sample > t.prev
                     THEN u.stall = 0 /\ u.prev = sample /\ u.pc = "poll"
                     ELSE /\ u.stall = t.stall + 1 /\ u.prev = t.prev
                          /\ u.pc = (IF u.stall = 3 THEN "drain" ELSE "poll")
        /\ \A u \in threads' :
              u.kind = "loop" => /\ u.pc = "poll" => u.stall < 3
                                 /\ u.pc = "drain" => u.stall = 3
        /\ \A k \in DOMAIN drained' :
              Len(Get(drained, k, << >>)) < Len(drained'[k]) =>
                  \E t \in threads : t.kind = "loop" /\ t.pc = "drain" /\ t.stall = 3
                                      /\ StripNonDigits(t.tel) = k
      ]_vars

\* a loop about to drain whose counter was reset on the way: it took one
\* poll more than the 3 stalled ones since the last push
C19_Witness ==
    \E t \in threads :
        /\ t.kind = "loop" /\ t.pc = "drain" /\ t.stall = 3 /\ t.prev >= 2
        /\ Get(pollsSincePush, StripNonDigits(t.tel), 0) = 4

C22_CooldownOnlyFromOperator ==
    [][ \A k \in cooldown' \ cooldown :
            /\ nPush' # nPush
            /\ pl'.fromMe
            /\ k = ExtractIncoming(pl').telefone
            /\ k # AgentClean
            /\ pl'.body # EchoBody
      ]_vars

\* the threads that are inside process_async for key k
InDispatch(k) ==
    { t \in threads : /\ StripNonDigits(t.tel) = k
                      /\ t.pc \in {"pa_call", "pa_agent", "pa_send", "pa_finally"} }

\* C23: for each key at most one process_async call is in progress, and
\* every process_async call is made by the key's loop: the webhook starts or
\* schedules none, whatever push returned.
C23_DispatchOnlyByLoop ==
    /\ \A t \in threads : Cardinality(InDispatch(StripNonDigits(t.tel))) <= 1
    /\ \A t \in threads : t.kind = "loop"

EchoFrame(p) ==
    LET k == ExtractIncoming(p).telefone
    IN /\ buffer' = buffer /\ buffer_sessions' = buffer_sessions /\ threads' = threads
       /\ cooldown' \in {cooldown, cooldown \cup {k}}
       /\ k = StripNonDigits(AgentNumber) => cooldown' = cooldown

\* the frame of an inbound event whose key is in cooldown: the fragment is
\* appended to the key's buffer, no key is registered and no thread started
CooldownFrame(p) ==
    LET d == ExtractIncoming(p)
        k == StripNonDigits(d.telefone)
    IN /\ buffer' = Put(buffer, k, Append(Get(buffer, k, << >>), d.mensagem_texto))
       /\ buffer_sessions' = buffer_sessions /\ threads' = threads
       /\ cooldown' = cooldown

-----------------------------------------------------------------------------
(* Harness of the chunker: a reply text is drawn, the chunker is applied    *)

PendingMsgs == << << "pending" >> >>

ReplyTexts == SeqsUpTo(Chars, MaxTextLen)

OnlyChunkerChanges ==
    UNCHANGED << observe, buffer, cooldown, buffer_sessions, presence_sessions,
                 threads, status, pushed, dispatched, drained, generated, sent, pollsSincePush,
                 burstBroken, arrivedWaiting, coolCalls, lastExit, nPush, jid, cleaned, pl, data,
                 pa_pc, calls, sendIdx >>

InitChunk ==
    /\ InitStores /\ observe = FALSE
    /\ DispatchIdle
    /\ jid = None /\ cleaned = None /\ pl = EmptyPayload /\ data = NoData
    /\ mensagem \in ReplyTexts
    /\ max_len \in MinChunkLen..MaxChunkLen
    /\ msgs = PendingMsgs

\* lines 497-527 of send_whatsapp_message
SplitMessage ==
    /\ msgs = PendingMsgs
    /\ msgs' = Chunk(mensagem, max_len)
    /\ UNCHANGED << mensagem, max_len >>
    /\ OnlyChunkerChanges

NextChunk == SplitMessage

SpecChunk == InitChunk /\ [][NextChunk]_vars

\* the lines of a text that are not blank, each without its outer blanks
ContentLines(s) ==
    LET RECURSIVE Walk(_, _)
        Walk(rest, line) ==
            IF rest = << >>
            THEN IF Strip(line) = << >> THEN << >> ELSE << Strip(line) >>
            ELSE IF Head(rest) = "\n"
            THEN (IF Strip(line) = << >> THEN << >> ELSE << Strip(line) >>)
                 \o Walk(Tail(rest), << >>)
            ELSE Walk(Tail(rest), Append(line, Head(rest)))
    IN Walk(s, << >>)

RECURSIVE ContentLinesOfAll(_)
ContentLinesOfAll(chunks) ==
    IF chunks = << >> THEN << >>
    ELSE ContentLines(Head(chunks)) \o ContentLinesOfAll(Tail(chunks))

\* C6: every chunk is at most max_len characters long.
C6_ChunksWithinMaxLen ==
    msgs # PendingMsgs => \A i \in 1..Len(msgs) : Len(msgs[i]) <= max_len

\* C7: the non-blank lines of the chunks, taken in order, are the non-blank
\* lines of the reply: no line is dropped, duplicated or reordered.
C7_ChunksKeepContent ==
    msgs # PendingMsgs => ContentLinesOfAll(msgs) = ContentLines(mensagem)

\* a paragraph longer than max_len was split by lines into chunks of its
\* own, after an earlier paragraph had been flushed
C7_Witness ==
    /\ msgs # PendingMsgs
    /\ Len(msgs) >= 3
    /\ \A i \in 1..Len(msgs) : msgs[i] # << >>
    /\ LET ps == SplitParagraphs(mensagem)
       IN /\ Len(ps) = 2
          /\ ContentLines(ps[1]) # << >>
          /\ Len(ps[2]) > max_len
          /\ Len(ContentLines(ps[2])) >= 2

\* C8: no chunk of a non-empty reply is empty, and a reply of at most
\* max_len characters is sent as one chunk equal to the reply.
C8_NoEmptyChunk ==
    msgs # PendingMsgs =>
        /\ mensagem # << >> => \A i \in 1..Len(msgs) : msgs[i] # << >>
        /\ Len(mensagem) <= max_len => msgs = << mensagem >>

-----------------------------------------------------------------------------
(* Harness of the normalizer: an identifier or a payload is drawn, and      *)
(* _clean_number or _extract_incoming is applied to it                      *)

Pending == << "pending" >>

JidInputs == SeqsUpTo(JidToks, MaxJidLen) \cup {None}

PayloadInputs ==
    { [EmptyPayload EXCEPT !.msg_sender = ms, !.chat_wa_id = wa, !.from = fr,
                           !.to = to, !.fromMe = fm] :
        ms \in {None, Client, OtherClient, DeviceLink, GroupShort},
        wa \in {None, Client, OtherClient, DeviceLink},
        fr \in {None, Client, OtherClient, GroupLong, GroupShort, ShortNumber},
        to \in {None, OtherClient, AgentNumber},
        fm \in BOOLEAN }

OnlyNormalizerChanges ==
    UNCHANGED << observe, buffer, cooldown, buffer_sessions, presence_sessions,
                 threads, status, pushed, dispatched, drained, generated, sent, pollsSincePush,
                 burstBroken, arrivedWaiting, coolCalls, lastExit, nPush, mensagem, max_len, msgs,
                 pa_pc, calls, sendIdx >>

InitNorm ==
    /\ InitStores /\ observe = FALSE
    /\ DispatchIdle
    /\ mensagem = << >> /\ max_len = MaxLen /\ msgs = << >>
    /\ cleaned = Pending /\ data = NoData
    /\ \/ jid \in JidInputs /\ pl = EmptyPayload
       \/ jid = None /\ pl \in PayloadInputs

\* _clean_number(jid), lines 319-340
CleanStep ==
    /\ cleaned = Pending
    /\ cleaned' = CleanNumber(jid)
    /\ UNCHANGED << jid, pl, data >>
    /\ OnlyNormalizerChanges

\* _extract_incoming(payload), lines 342-490
ExtractStep ==
    /\ data = NoData
    /\ data' = ExtractIncoming(pl)
    /\ UNCHANGED << jid, cleaned, pl >>
    /\ OnlyNormalizerChanges

NextNorm == CleanStep \/ ExtractStep

SpecNorm == InitNorm /\ [][NextNorm]_vars

\* what the claim expects of normalize, written without the model's helpers
HasMarker(raw, marker) ==
    \E i \in 1..(Len(raw) - 1) : SubSeq(raw, i, i + 1) = << "@", marker >>

RECURSIVE DigitsBeforeSuffix(_)
DigitsBeforeSuffix(raw) ==
    IF raw = << >> \/ Head(raw) = "@" THEN << >>
    ELSE (IF Head(raw) \in DigitToks THEN << Head(raw) >> ELSE << >>)
         \o DigitsBeforeSuffix(Tail(raw))

RECURSIVE DigitCount(_)
DigitCount(num) ==
    IF num = << >> THEN 0 ELSE DigitLen(Head(num)) + DigitCount(Tail(num))

Normalized(raw) ==
    IF HasMarker(raw, "lid") \/ HasMarker(raw, "g.us") THEN None
    ELSE IF DigitCount(DigitsBeforeSuffix(raw)) < 10 THEN None
    ELSE IF DigitCount(DigitsBeforeSuffix(raw)) > 15 THEN None
    ELSE DigitsBeforeSuffix(raw)

RECURSIVE FirstNormalized(_)
FirstNormalized(cands) ==
    IF cands = << >> THEN None
    ELSE IF Normalized(Head(cands)) # None THEN Normalized(Head(cands))
    ELSE FirstNormalized(Tail(cands))

\* C9 as stated: normalize rejects device-link and group identifiers and
\* digit strings shorter than 10 or longer than 15, returns the digits
\* otherwise, and the key of an event is the first candidate, in priority
\* order, that normalizes.
C9_NormalizeFirstCandidate ==
    /\ cleaned # Pending => cleaned = Normalized(jid)
    /\ (data # NoData /\ FirstNormalized(Candidates(pl)) # None)
          => data.telefone = FirstNormalized(Candidates(pl))

\* C9 amended: the same, with the choice of the first normalizing candidate
\* stated for events that are not outbound echoes.
C9_NormalizeFirstCandidateInbound ==
    /\ cleaned # Pending => cleaned = Normalized(jid)
    /\ (data # NoData /\ ~pl.fromMe /\ FirstNormalized(Candidates(pl)) # None)
          => data.telefone = FirstNormalized(Candidates(pl))

\* an inbound event whose first candidate is rejected and whose key comes
\* from a later candidate
C9_Witness ==
    /\ data # NoData /\ ~pl.fromMe
    /\ pl.msg_sender # None /\ Normalized(pl.msg_sender) = None
    /\ data.telefone # None
    /\ data.telefone = Normalized(pl.from)

\* C10: every key in the Buffer Store, the Cooldown Store or buffer_sessions
\* has 10 to 15 digits, and an event none of whose candidates normalizes
\* ends with status "ignored".
C10_OnlyNormalizedKeys ==
    /\ \A k \in KeysSeen : DigitCount(k) >= 10 /\ DigitCount(k) <= 15
    /\ (nPush > 0 /\ FirstNormalized(Candidates(pl)) = None) => status = "ignored"

-----------------------------------------------------------------------------
(* process_async taken alone, lines 558-601, with send_presence (547-556)   *)
(* and the send loop of send_whatsapp_message (529-541). The provider      *)
(* client (tools.whatsapp_api) and the agent are external: every call of   *)
(* theirs either returns or raises. calls keeps the calls made, in order.  *)

\* the default of res.get("output", "Erro ao processar."), line 587
ErrorText == << "b", "b" >>

\* replies of the agent, of one, two and three paragraphs
AgentOutputs ==
    { << "a", "a" >>,
      << "a", "a", "\n", "\n", "a", "a", "a" >>,
      << "a", "a", "a", "\n", "\n", "a", "a", "a", "\n", "\n", "a", "a", "a" >> }

Call(op, ok) == [op |-> op, ok |-> ok]

\* line 532: whatsapp.send_text(telefone, msg), the chunk kept with the call
SendCall(msg, ok) == [op |-> "send_text", ok |-> ok, msg |-> msg]

\* line 535: the sleep follows chunk i of n (counted from 1) unless it is
\* the last one
DelayAfter_always(i, n) == TRUE
DelayAfter(i, n) == i < n

OnlyDispatchChanges ==
    UNCHANGED << observe, buffer, cooldown, buffer_sessions, presence_sessions,
                 threads, status, pushed, dispatched, drained, generated, sent,
                 pollsSincePush, burstBroken, arrivedWaiting, coolCalls, lastExit,
                 nPush, jid, cleaned, pl, data, max_len >>

InitDispatch ==
    /\ InitStores /\ observe = FALSE
    /\ jid = None /\ cleaned = None /\ pl = EmptyPayload /\ data = NoData
    /\ mensagem = << >> /\ msgs = << >>
    /\ max_len \in MinChunkLen..MaxChunkLen
    /\ pa_pc = "mark_read" /\ calls = << >> /\ sendIdx = 0

\* lines 570-579: the read delay and whatsapp.mark_as_read(tel); an
\* exception goes to the except clause of line 596 and on to the finally
PaMarkRead ==
    \E ok \in BOOLEAN :
        /\ pa_pc = "mark_read"
        /\ calls' = Append(calls, Call("mark_as_read", ok))
        /\ pa_pc' = IF ok THEN "composing" ELSE "finally"
        /\ UNCHANGED << mensagem, msgs, sendIdx >>
        /\ OnlyDispatchChanges

\* line 583: send_presence(num, "composing"), which calls
\* whatsapp.send_presence without a try (line 556)
PaComposing ==
    \E ok \in BOOLEAN :
        /\ pa_pc = "composing"
        /\ calls' = Append(calls, Call("composing", ok))
        /\ pa_pc' = IF ok THEN "run_agent" ELSE "finally"
        /\ UNCHANGED << mensagem, msgs, sendIdx >>
        /\ OnlyDispatchChanges

\* lines 586-587: res = run_agent(tel, msg); txt = res.get("output", ...).
\* The agent returns an output, returns a result without output, or raises.
PaRunAgent ==
    /\ pa_pc = "run_agent"
    /\ \/ \E out \in AgentOutputs :
             /\ calls' = Append(calls, Call("run_agent", TRUE))
             /\ mensagem' = out
             /\ pa_pc' = "paused"
       \/ /\ calls' = Append(calls, Call("run_agent", TRUE))
          /\ mensagem' = ErrorText
          /\ pa_pc' = "paused"
       \/ /\ calls' = Append(calls, Call("run_agent", FALSE))
          /\ mensagem' = mensagem
          /\ pa_pc' = "finally"
    /\ UNCHANGED << msgs, sendIdx >>
    /\ OnlyDispatchChanges

\* lines 590-594 and 497-527: send_presence(num, "paused"), then
\* send_whatsapp_message(tel, txt) splits txt into msgs
PaPaused ==
    \E ok \in BOOLEAN :
        /\ pa_pc = "paused"
        /\ calls' = Append(calls, Call("paused", ok))
        /\ IF ok
           THEN /\ pa_pc' = "send"
                /\ msgs' = Chunk(mensagem, max_len)
                /\ sendIdx' = 1
           ELSE /\ pa_pc' = "finally"
                /\ UNCHANGED << msgs, sendIdx >>
        /\ UNCHANGED mensagem
        /\ OnlyDispatchChanges

\* lines 529-541: one iteration of the send loop, the send and the sleep
\* of line 536 after it; an exception of whatsapp.send_text ends the loop
\* (line 539) and send_whatsapp_message returns False, which process_async
\* does not read
SendText ==
    \E ok \in BOOLEAN :
        /\ pa_pc = "send"
        /\ calls' = Append(calls, SendCall(msgs[sendIdx], ok))
                     \o (IF ok /\ DelayAfter(sendIdx, Len(msgs))
                         THEN << Call("delay", TRUE) >> ELSE << >>)
        /\ IF ok /\ sendIdx < Len(msgs)
           THEN pa_pc' = "send" /\ sendIdx' = sendIdx + 1
           ELSE pa_pc' = "finally" /\ sendIdx' = sendIdx
        /\ UNCHANGED << mensagem, msgs >>
        /\ OnlyDispatchChanges

\* lines 598-601: finally: send_presence(tel, "paused") and
\* presence_sessions.pop; an exception of the presence call leaves
\* process_async
PaCleanup ==
    \E ok \in BOOLEAN :
        /\ pa_pc = "finally"
        /\ calls' = Append(calls, Call("paused", ok))
        /\ pa_pc' = IF ok THEN "returned" ELSE "raised"
        /\ UNCHANGED << mensagem, msgs, sendIdx >>
        /\ OnlyDispatchChanges

NextDispatch ==
    PaMarkRead \/ PaComposing \/ PaRunAgent \/ PaPaused \/ SendText \/ PaCleanup

SpecDispatch == InitDispatch /\ [][NextDispatch]_vars

\* the dispatch is over
DispatchOver == pa_pc \in {"returned", "raised"}

Made(op) == { n \in 1..Len(calls) : calls[n].op = op }
Failed(op) == { n \in Made(op) : ~calls[n].ok }

\* C12: when the agent and every send_text succeed, the agent was invoked
\* and every chunk of the reply was sent, whatever mark-read or presence
\* call failed.
C12_BestEffortCalls ==
    (DispatchOver /\ Failed("run_agent") = {} /\ Failed("send_text") = {})
        => /\ Made("run_agent") # {}
           /\ Cardinality(Made("send_text")) = Len(msgs)
           /\ Made("send_text") # {}

\* C13: a dispatch that reached the agent attempts a send_text, and when
\* the agent raised or returned no output the generic text is what is sent;
\* stated for dispatches in which no mark-read or presence call failed.
C13_EngineFailureSubstituted ==
    ( /\ DispatchOver
      /\ Made("run_agent") # {}
      /\ Failed("mark_as_read") = {} /\ Failed("composing") = {}
      /\ Failed("paused") = {} )
        => /\ Made("send_text") # {}
           /\ Failed("run_agent") # {} => (mensagem = ErrorText /\ msgs = << ErrorText >>)

\* C14: the last provider call of a dispatch is the presence reset
\* ("paused"), and process_async returns normally to its caller.
C14_PresenceResetLast ==
    DispatchOver => /\ calls[Len(calls)].op = "paused"
                    /\ pa_pc = "returned"

\* C15: after a failed send_text no further send_text is made in the
\* dispatch (no retry, no later chunk), and process_async returns normally,
\* so the loop that called it goes on to its next cycle.
C15_SendFailureEndsCycle ==
    (DispatchOver /\ Failed("send_text") # {})
        => /\ \A n \in Failed("send_text") : \A m \in Made("send_text") : m <= n
           /\ pa_pc = "returned"

\* the calls of a dispatch of the chunks chs in which nothing fails
RECURSIVE SendsOf(_)
SendsOf(chs) ==
    IF chs = << >> THEN << >>
    ELSE IF Len(chs) = 1 THEN << SendCall(chs[1], TRUE) >>
    ELSE << SendCall(chs[1], TRUE), Call("delay", TRUE) >> \o SendsOf(Tail(chs))

\* C21: no chunk is sent before the agent has returned; and a dispatch in
\* which no call failed made its calls in this order: mark read, presence
\* composing, the agent, presence paused, then the chunks of the reply in the
\* chunker's order with a delay after each of them but the last (the
\* presence reset of the cleanup follows).
C21_CallOrder ==
    /\ \A n \in Made("send_text") :
           \E k \in 1..(n - 1) : calls[k].op = "run_agent" /\ calls[k].ok
    /\ (pa_pc = "returned" /\ \A n \in 1..Len(calls) : calls[n].ok) =>
           calls = << Call("mark_as_read", TRUE), Call("composing", TRUE),
                      Call("run_agent", TRUE), Call("paused", TRUE) >>
                   \o SendsOf(Chunk(mensagem, max_len))
                   \o << Call("paused", TRUE) >>

\* a dispatch without a failure that sent three chunks
C21_Witness ==
    /\ pa_pc = "returned" /\ \A n \in 1..Len(calls) : calls[n].ok
    /\ Cardinality(Made("send_text")) = 3
    /\ Cardinality(Made("delay")) = 2

====
